---- MODULE Spec2Model ----
(***************************************************************************)
(* Parallel-Copy-Tool: the concurrent copy engine of copy.py (chunked      *)
(* copy, pause / resume / cancel) and of copy-GPU-macOS.py (size-match     *)
(* skip rule, destination subfolder).                                      *)
(*                                                                         *)
(* Threads of the program: the Tk main thread (button handlers, update_ui, *)
(* finalize_ui: one handler at a time), the copy_worker threads and the    *)
(* wait_for_completion thread.  Every access to a shared global is a step  *)
(* of its own where another thread can observe the difference; in          *)
(* particular "x += 1" on a global is a load followed by a store.          *)
(*                                                                         *)
(* Sizes are counted in MiB.  Paths are sequences of components.           *)
(***************************************************************************)
EXTENDS Integers, Sequences, FiniteSets, TLC

\* ---------------------------------------------------------------- bounds
MaxRuns == 2        \* accepted start_copy calls in one behaviour
MaxTasks == 2       \* tasks enqueued in one behaviour, over all its runs
MaxThreads == 2     \* copy_worker threads started in one behaviour
MaxFaults == 1      \* I/O failures the environment injects in one behaviour

\* ------------------------------------------------------ program constants
\* copy.py:11, 500 * 1024 * 1024 bytes, here in MiB
ESTIMATED_AVG_FILE_SIZE == 500
\* copy.py:46, 4 * 1024 * 1024 bytes, here in MiB
buffer_size == 4

NORMAL == "normal"
DISABLED == "disabled"

\* ------------------------------------------------------------ environment
Names == <<"a", "b", "c", "d">>
SizeTable == <<3, 0, 6, 9>>
SOURCE == <<"src">>
DEST == <<"dst">>

Min(a, b) == IF a < b THEN a ELSE b
Max(a, b) == IF a > b THEN a ELSE b

\* os.path helpers on component sequences
join(a, b) == a \o b
basename(p) == p[Len(p)]
dirname(p) == SubSeq(p, 1, Len(p) - 1)
relpath(p, start) == IF p = start THEN <<".">> ELSE SubSeq(p, Len(start) + 1, Len(p))

\* os.path.getsize of a source file
getsize(p) == LET k == CHOOSE i \in 1..Len(Names) : Names[i] = basename(p) IN SizeTable[k]

\* os.walk(source_dir): the files of a tree with n files, in walk order
walk(n) == [k \in 1..n |-> join(SOURCE, <<Names[k]>>)]

VARIABLES
    file_queue,          \* queue.Queue: the deque of pending source paths
    unfinished_tasks,    \* queue.Queue.unfinished_tasks (what join() waits on)
    progress_queue,      \* completed counts pushed by the workers
    total_files,
    copied_files,
    total_bytes_copied,
    pause_event,         \* threading.Event: TRUE = set = running
    cancel_event,
    thread_status,       \* thread name -> status record
    threads,             \* live copy_worker threads: <<run, i>> -> locals
    waiters,             \* wait_for_completion threads blocked in join()
    finalize_pending,    \* finalize_ui callbacks scheduled with root.after(0)
    ui_timer,            \* an update_ui callback is scheduled
    main_pc,             \* where the Tk main thread is
    buttons,             \* state of start / pause / resume / cancel buttons
    percent_label,       \* <<done, total>> shown to the caller
    dst_files,           \* destination files: path -> size
    runs,                \* accepted start_copy calls so far
    enqueued,            \* history: tasks put on file_queue so far
    started,             \* history: copy_worker threads started so far
    faults,              \* history: I/O failures injected so far
    SOURCE_DIR,          \* copy-GPU-macOS.py: selected source, <<>> when none
    DEST_DIR,            \* copy-GPU-macOS.py: selected destination root
    DEST_DIR_FULL,       \* copy-GPU-macOS.py: DEST_DIR / basename(SOURCE_DIR)
    dst_dirs,            \* destination directories that exist
    enumerated,          \* history: the tasks the last enumeration put
    mem_reported,       \* estimate_thread_count alone: the memory reported, MiB
    pool_size,         \* estimate_thread_count alone: <<result>>, <<>> before the call
    dest_reachable,      \* copy-GPU-macOS.py: os.path.exists(DEST_DIR) as the monitor sees it
    monitor_pc,          \* copy-GPU-macOS.py: where monitor_destination is
    outages              \* history: times the destination was lost so far

vars == <<file_queue, unfinished_tasks, progress_queue, total_files, copied_files,
          total_bytes_copied, pause_event, cancel_event, thread_status, threads,
          waiters, finalize_pending, ui_timer, main_pc, buttons, percent_label,
          dst_files, runs, enqueued, started, faults, SOURCE_DIR, DEST_DIR,
          DEST_DIR_FULL, dst_dirs, enumerated, mem_reported, pool_size,
          dest_reachable, monitor_pc, outages>>

\* the globals and the file-system state only copy-GPU-macOS.py uses
gpu_vars == <<SOURCE_DIR, DEST_DIR, DEST_DIR_FULL, dst_dirs, enumerated>>

\* one call of estimate_thread_count taken alone: its input and its result
est_vars == <<mem_reported, pool_size>>

\* the destination monitor of copy-GPU-macOS.py and what it polls
mon_vars == <<dest_reachable, monitor_pc, outages>>

Status(kind, file) == [kind |-> kind, file |-> file]
Idle == Status("Idle", "")

NoTask == <<>>
Locals(pc) == [pc |-> pc, src_file |-> NoTask, copied_size |-> 0, reg |-> 0,
               late |-> FALSE, abandoned |-> FALSE]

Init ==
    /\ file_queue = <<>>
    /\ unfinished_tasks = 0
    /\ progress_queue = <<>>
    /\ total_files = 0
    /\ copied_files = 0
    /\ total_bytes_copied = 0
    /\ pause_event = FALSE
    /\ cancel_event = FALSE
    /\ thread_status = << >>
    /\ threads = << >>
    /\ waiters = 0
    /\ finalize_pending = 0
    /\ ui_timer = FALSE
    /\ main_pc = "idle"
    /\ buttons = [start |-> NORMAL, pause |-> DISABLED, resume |-> DISABLED,
                  cancel |-> DISABLED]
    /\ percent_label = <<0, 0>>
    /\ dst_files = << >>
    /\ runs = 0
    /\ enqueued = 0
    /\ started = 0
    /\ faults = 0
    /\ SOURCE_DIR = <<>>
    /\ DEST_DIR = <<>>
    /\ DEST_DIR_FULL = <<>>
    /\ dst_dirs = {DEST}
    /\ enumerated = <<>>
    /\ mem_reported = 0
    /\ pool_size = <<>>
    /\ dest_reachable = TRUE
    /\ monitor_pc = "check"
    /\ outages = 0

\* ------------------------------------------------------------- helpers
\* estimate_thread_count without its floor of 1
estimate_thread_count_NoFloor(available_mem) ==
    Min(8, available_mem \div ESTIMATED_AVG_FILE_SIZE)

\* estimate_thread_count, on the value get_available_memory() returned
estimate_thread_count(available_mem) ==
    Max(1, Min(8, available_mem \div ESTIMATED_AVG_FILE_SIZE))

\* values psutil reports in the engine's runs
PoolMemory == {m * ESTIMATED_AVG_FILE_SIZE : m \in 0..MaxThreads}

Drop(f, t) == [x \in DOMAIN f \ {t} |-> f[x]]
Put(f, k, v) == [x \in DOMAIN f \cup {k} |-> IF x = k THEN v ELSE f[x]]

ThreadName(t) == t[2]
SetStatus(t, s) == Put(thread_status, ThreadName(t), s)

\* the destination path copy_worker of copy.py computes (lines 57-58)
dest_file_of(src_file) == join(DEST, relpath(src_file, SOURCE))

CanFault == faults < MaxFaults

Goto(t, pc) == threads' = [threads EXCEPT ![t].pc = pc]

\* ------------------------------------------------ copy_worker of copy.py
\* line 49: while not cancel_event.is_set()
W_LoopCheck(t) ==
    /\ threads[t].pc = "loop"
    /\ IF cancel_event
       THEN threads' = Drop(threads, t)
       ELSE Goto(t, "wait")
    /\ UNCHANGED <<mon_vars, est_vars, gpu_vars, file_queue, unfinished_tasks, progress_queue, total_files,
                   copied_files, total_bytes_copied, pause_event, cancel_event,
                   thread_status, waiters, finalize_pending, ui_timer, main_pc,
                   buttons, percent_label, dst_files, runs, enqueued, started, faults>>

\* line 50 without the gate: a worker that does not wait for pause_event
W_PauseWait_NoGate(t) ==
    /\ threads[t].pc = "wait"
    /\ Goto(t, "get")
    /\ UNCHANGED <<mon_vars, est_vars, gpu_vars, file_queue, unfinished_tasks, progress_queue, total_files,
                   copied_files, total_bytes_copied, pause_event, cancel_event,
                   thread_status, waiters, finalize_pending, ui_timer, main_pc,
                   buttons, percent_label, dst_files, runs, enqueued, started, faults>>

\* line 50: pause_event.wait()
W_PauseWait(t) ==
    /\ threads[t].pc = "wait"
    /\ pause_event
    /\ Goto(t, "get")
    /\ UNCHANGED <<mon_vars, est_vars, gpu_vars, file_queue, unfinished_tasks, progress_queue, total_files,
                   copied_files, total_bytes_copied, pause_event, cancel_event,
                   thread_status, waiters, finalize_pending, ui_timer, main_pc,
                   buttons, percent_label, dst_files, runs, enqueued, started, faults>>

\* lines 52-55 with a get that reads the head and leaves it on the queue
W_GetNowait_NoPop(t) ==
    /\ threads[t].pc = "get"
    /\ IF file_queue = <<>>
       THEN threads' = Drop(threads, t)
       ELSE threads' = [threads EXCEPT ![t].pc = "open",
                                       ![t].src_file = Head(file_queue),
                                       ![t].late = cancel_event]
    /\ UNCHANGED <<mon_vars, est_vars, gpu_vars, file_queue, unfinished_tasks, progress_queue, total_files,
                   copied_files, total_bytes_copied, pause_event, cancel_event,
                   thread_status, waiters, finalize_pending, ui_timer, main_pc,
                   buttons, percent_label, dst_files, runs, enqueued, started, faults>>

\* lines 52-55 with a get that takes the newest entry
W_GetNowait_Lifo(t) ==
    /\ threads[t].pc = "get"
    /\ IF file_queue = <<>>
       THEN /\ threads' = Drop(threads, t)
            /\ UNCHANGED file_queue
       ELSE /\ threads' = [threads EXCEPT ![t].pc = "open",
                                          ![t].src_file = file_queue[Len(file_queue)],
                                          ![t].late = cancel_event]
            /\ file_queue' = SubSeq(file_queue, 1, Len(file_queue) - 1)
    /\ UNCHANGED <<mon_vars, est_vars, gpu_vars, unfinished_tasks, progress_queue, total_files,
                   copied_files, total_bytes_copied, pause_event, cancel_event,
                   thread_status, waiters, finalize_pending, ui_timer, main_pc,
                   buttons, percent_label, dst_files, runs, enqueued, started, faults>>

\* lines 52-55: file_queue.get_nowait(), break on queue.Empty
W_GetNowait(t) ==
    /\ threads[t].pc = "get"
    /\ IF file_queue = <<>>
       THEN /\ threads' = Drop(threads, t)
            /\ UNCHANGED file_queue
       ELSE /\ threads' = [threads EXCEPT ![t].pc = "open",
                                          ![t].src_file = Head(file_queue),
                                          ![t].late = cancel_event]
            /\ file_queue' = Tail(file_queue)
    /\ UNCHANGED <<mon_vars, est_vars, gpu_vars, unfinished_tasks, progress_queue, total_files,
                   copied_files, total_bytes_copied, pause_event, cancel_event,
                   thread_status, waiters, finalize_pending, ui_timer, main_pc,
                   buttons, percent_label, dst_files, runs, enqueued, started, faults>>

\* lines 80-82, the except clause: the status becomes "Error: <name>" and
\* control goes to the finally clause
Raise(t) ==
    /\ CanFault
    /\ faults' = faults + 1
    /\ thread_status' = SetStatus(t, Status("Error", basename(threads[t].src_file)))
    /\ threads' = [threads EXCEPT ![t].pc = "fin_load", ![t].abandoned = FALSE]

\* lines 57-65: relpath, join and os.makedirs are outside the try, so an
\* exception there ends the thread without task_done(); getsize and the two
\* open() calls are inside it; open(dest_file, 'wb') creates or truncates
W_Open(t) ==
    /\ threads[t].pc = "open"
    /\ \/ /\ CanFault
          /\ faults' = faults + 1
          /\ threads' = Drop(threads, t)
          /\ UNCHANGED <<dst_files, thread_status>>
       \/ /\ Raise(t)
          /\ UNCHANGED dst_files
       \/ /\ threads' = [threads EXCEPT ![t].pc = "chunk_loop", ![t].copied_size = 0]
          /\ dst_files' = Put(dst_files, dest_file_of(threads[t].src_file), 0)
          /\ UNCHANGED <<faults, thread_status>>
    /\ UNCHANGED <<mon_vars, est_vars, gpu_vars, file_queue, unfinished_tasks, progress_queue, total_files,
                   copied_files, total_bytes_copied, pause_event, cancel_event,
                   waiters, finalize_pending, ui_timer, main_pc,
                   buttons, percent_label, runs, enqueued, started>>

\* line 66: while not cancel_event.is_set(); the task is abandoned when
\* the loop ends on the event with input left to copy
W_ChunkLoop(t) ==
    /\ threads[t].pc = "chunk_loop"
    /\ IF cancel_event
       THEN threads' = [threads EXCEPT
                           ![t].pc = "copystat",
                           ![t].abandoned =
                               threads[t].copied_size < getsize(threads[t].src_file)]
       ELSE Goto(t, "chunk_wait")
    /\ UNCHANGED <<mon_vars, est_vars, gpu_vars, file_queue, unfinished_tasks, progress_queue, total_files,
                   copied_files, total_bytes_copied, pause_event, cancel_event,
                   thread_status, waiters, finalize_pending, ui_timer, main_pc,
                   buttons, percent_label, dst_files, runs, enqueued, started, faults>>

\* lines 67-75: pause_event.wait(), then read a chunk, break at end of
\* input, else write it and publish the progress text
W_Chunk(t) ==
    /\ threads[t].pc = "chunk_wait"
    /\ pause_event
    /\ LET src == threads[t].src_file
           total_size == getsize(src)
           chunk == Min(buffer_size, total_size - threads[t].copied_size)
           copied == threads[t].copied_size + chunk
       IN  \/ /\ chunk = 0
              /\ Goto(t, "copystat")
              /\ UNCHANGED <<dst_files, thread_status, faults>>
           \/ /\ chunk > 0
              /\ threads' = [threads EXCEPT ![t].pc = "chunk_loop",
                                            ![t].copied_size = copied]
              /\ dst_files' = Put(dst_files, dest_file_of(src), copied)
              /\ thread_status' = SetStatus(t, Status("Copy", basename(src)))
              /\ UNCHANGED faults
           \/ /\ Raise(t)
              /\ UNCHANGED dst_files
    /\ UNCHANGED <<mon_vars, est_vars, gpu_vars, file_queue, unfinished_tasks, progress_queue, total_files,
                   copied_files, total_bytes_copied, pause_event, cancel_event,
                   waiters, finalize_pending, ui_timer, main_pc,
                   buttons, percent_label, runs, enqueued, started>>

\* line 77 and the load of line 78: shutil.copystat, then the read of
\* total_bytes_copied
W_Copystat(t) ==
    /\ threads[t].pc = "copystat"
    /\ \/ /\ threads' = [threads EXCEPT ![t].pc = "bytes_store",
                                        ![t].reg = total_bytes_copied]
          /\ UNCHANGED <<faults, thread_status>>
       \/ Raise(t)
    /\ UNCHANGED <<mon_vars, est_vars, gpu_vars, file_queue, unfinished_tasks, progress_queue, total_files,
                   copied_files, total_bytes_copied, pause_event, cancel_event,
                   waiters, finalize_pending, ui_timer, main_pc,
                   buttons, percent_label, dst_files, runs, enqueued, started>>

\* line 78, the store: total_bytes_copied += copied_size
W_BytesStore(t) ==
    /\ threads[t].pc = "bytes_store"
    /\ total_bytes_copied' = threads[t].reg + threads[t].copied_size
    /\ threads' = [threads EXCEPT ![t].pc = "fin_load", ![t].reg = 0]
    /\ UNCHANGED <<mon_vars, est_vars, gpu_vars, file_queue, unfinished_tasks, progress_queue, total_files,
                   copied_files, pause_event, cancel_event,
                   thread_status, waiters, finalize_pending, ui_timer, main_pc,
                   buttons, percent_label, dst_files, runs, enqueued, started, faults>>

\* line 84, the load of copied_files += 1
W_FinLoad(t) ==
    /\ threads[t].pc = "fin_load"
    /\ threads' = [threads EXCEPT ![t].pc = "fin_store", ![t].reg = copied_files]
    /\ UNCHANGED <<mon_vars, est_vars, gpu_vars, file_queue, unfinished_tasks, progress_queue, total_files,
                   copied_files, total_bytes_copied, pause_event, cancel_event,
                   thread_status, waiters, finalize_pending, ui_timer, main_pc,
                   buttons, percent_label, dst_files, runs, enqueued, started, faults>>

\* line 84, the store of copied_files += 1
W_FinStore(t) ==
    /\ threads[t].pc = "fin_store"
    /\ copied_files' = threads[t].reg + 1
    /\ threads' = [threads EXCEPT ![t].pc = "fin_put", ![t].reg = 0]
    /\ UNCHANGED <<mon_vars, est_vars, gpu_vars, file_queue, unfinished_tasks, progress_queue, total_files,
                   total_bytes_copied, pause_event, cancel_event,
                   thread_status, waiters, finalize_pending, ui_timer, main_pc,
                   buttons, percent_label, dst_files, runs, enqueued, started, faults>>

\* line 85, the argument: the read of the global copied_files, which is
\* not under the lock of the put that follows
W_FinPut(t) ==
    /\ threads[t].pc = "fin_put"
    /\ threads' = [threads EXCEPT ![t].pc = "fin_enqueue", ![t].reg = copied_files]
    /\ UNCHANGED <<mon_vars, est_vars, gpu_vars, file_queue, unfinished_tasks,
                   progress_queue, total_files,
                   copied_files, total_bytes_copied, pause_event, cancel_event,
                   thread_status, waiters, finalize_pending, ui_timer, main_pc,
                   buttons, percent_label, dst_files, runs, enqueued, started, faults>>

\* line 85, the call: progress_queue.put of the value read
W_FinEnqueue(t) ==
    /\ threads[t].pc = "fin_enqueue"
    /\ progress_queue' = Append(progress_queue, threads[t].reg)
    /\ threads' = [threads EXCEPT ![t].pc = "task_done", ![t].reg = 0]
    /\ UNCHANGED <<mon_vars, est_vars, gpu_vars, file_queue, unfinished_tasks, total_files,
                   copied_files, total_bytes_copied, pause_event, cancel_event,
                   thread_status, waiters, finalize_pending, ui_timer, main_pc,
                   buttons, percent_label, dst_files, runs, enqueued, started, faults>>

\* lines 86-88: the status becomes "Idle", then file_queue.task_done(),
\* then back to the loop condition
W_TaskDone(t) ==
    /\ threads[t].pc = "task_done"
    /\ thread_status' = SetStatus(t, Idle)
    /\ unfinished_tasks' = unfinished_tasks - 1
    /\ threads' = [threads EXCEPT ![t] = Locals("loop")]
    /\ UNCHANGED <<mon_vars, est_vars, gpu_vars, file_queue, progress_queue, total_files,
                   copied_files, total_bytes_copied, pause_event, cancel_event,
                   waiters, finalize_pending, ui_timer, main_pc,
                   buttons, percent_label, dst_files, runs, enqueued, started, faults>>

\* ------------------------------------------- Tk main thread of copy.py
Buttons(start, pause, resume, cancel) ==
    [start |-> start, pause |-> pause, resume |-> resume, cancel |-> cancel]

\* start_copy, lines 158-169, with a source or destination path that does
\* not exist: the counters are reset, then the handler returns
StartCopyInvalid ==
    /\ main_pc = "idle"
    /\ buttons.start = NORMAL
    /\ copied_files' = 0
    /\ total_bytes_copied' = 0
    /\ UNCHANGED <<mon_vars, est_vars, gpu_vars, file_queue, unfinished_tasks, progress_queue, total_files,
                   pause_event, cancel_event, thread_status, threads, waiters,
                   finalize_pending, ui_timer, main_pc, buttons, percent_label,
                   dst_files, runs, enqueued, started, faults>>

\* start_copy, lines 158-177, both paths exist
StartCopy ==
    /\ main_pc = "idle"
    /\ buttons.start = NORMAL
    /\ runs < MaxRuns
    /\ runs' = runs + 1
    /\ copied_files' = 0
    /\ total_bytes_copied' = 0
    /\ buttons' = Buttons(DISABLED, NORMAL, DISABLED, NORMAL)
    /\ cancel_event' = FALSE
    /\ pause_event' = TRUE
    /\ main_pc' = "populate"
    /\ UNCHANGED <<mon_vars, est_vars, gpu_vars, file_queue, unfinished_tasks, progress_queue, total_files,
                   thread_status, threads, waiters, finalize_pending, ui_timer,
                   percent_label, dst_files, enqueued, started, faults>>

\* populate_file_queue, lines 37-40: one put per file of the walk
PopulateFileQueue ==
    /\ main_pc = "populate"
    /\ \E n \in 0..(MaxTasks - enqueued) :
          /\ file_queue' = file_queue \o walk(n)
          /\ unfinished_tasks' = unfinished_tasks + n
          /\ enqueued' = enqueued + n
    /\ main_pc' = "qsize"
    /\ UNCHANGED <<mon_vars, est_vars, gpu_vars, progress_queue, total_files, copied_files, total_bytes_copied,
                   pause_event, cancel_event, thread_status, threads, waiters,
                   finalize_pending, ui_timer, buttons, percent_label, dst_files,
                   runs, started, faults>>

\* populate_file_queue line 41 and start_copy lines 180-186
SetTotalFiles ==
    /\ main_pc = "qsize"
    /\ total_files' = Len(file_queue)
    /\ IF Len(file_queue) = 0
       THEN /\ buttons' = Buttons(NORMAL, DISABLED, DISABLED, DISABLED)
            /\ main_pc' = "idle"
       ELSE /\ main_pc' = "spawn"
            /\ UNCHANGED buttons
    /\ UNCHANGED <<mon_vars, est_vars, gpu_vars, file_queue, unfinished_tasks, progress_queue, copied_files,
                   total_bytes_copied, pause_event, cancel_event, thread_status,
                   threads, waiters, finalize_pending, ui_timer, percent_label,
                   dst_files, runs, enqueued, started, faults>>

\* start_copy lines 188-205: the workers, the drain waiter, the first tick
SpawnThreads ==
    /\ main_pc = "spawn"
    /\ \E available_mem \in PoolMemory :
          LET num_threads == estimate_thread_count(available_mem)
              new == {<<runs, i>> : i \in 1..num_threads}
          IN  /\ started + num_threads <= MaxThreads
              /\ started' = started + num_threads
              /\ threads' = [t \in DOMAIN threads \cup new |->
                                IF t \in new THEN Locals("loop") ELSE threads[t]]
              /\ thread_status' = [k \in DOMAIN thread_status \cup (1..num_threads) |->
                                      IF k \in 1..num_threads
                                      THEN Status("Waiting", "")
                                      ELSE thread_status[k]]
    /\ waiters' = waiters + 1
    /\ ui_timer' = TRUE
    /\ main_pc' = "idle"
    /\ UNCHANGED <<mon_vars, est_vars, gpu_vars, file_queue, unfinished_tasks, progress_queue, total_files,
                   copied_files, total_bytes_copied, pause_event, cancel_event,
                   finalize_pending, buttons, percent_label, dst_files, runs,
                   enqueued, faults>>

\* wait_for_completion, lines 200-202: join() returns when no task is
\* unfinished, then finalize_ui is scheduled
WaitForCompletion ==
    /\ waiters > 0
    /\ unfinished_tasks = 0
    /\ waiters' = waiters - 1
    /\ finalize_pending' = finalize_pending + 1
    /\ UNCHANGED <<mon_vars, est_vars, gpu_vars, file_queue, unfinished_tasks, progress_queue, total_files,
                   copied_files, total_bytes_copied, pause_event, cancel_event,
                   thread_status, threads, ui_timer, main_pc, buttons,
                   percent_label, dst_files, runs, enqueued, started, faults>>

\* pause_copy, lines 207-211
PauseCopy ==
    /\ main_pc = "idle"
    /\ buttons.pause = NORMAL
    /\ pause_event' = FALSE
    /\ buttons' = [buttons EXCEPT !.pause = DISABLED, !.resume = NORMAL]
    /\ UNCHANGED <<mon_vars, est_vars, gpu_vars, file_queue, unfinished_tasks, progress_queue, total_files,
                   copied_files, total_bytes_copied, cancel_event, thread_status,
                   threads, waiters, finalize_pending, ui_timer, main_pc,
                   percent_label, dst_files, runs, enqueued, started, faults>>

\* resume_copy, lines 213-217
ResumeCopy ==
    /\ main_pc = "idle"
    /\ buttons.resume = NORMAL
    /\ pause_event' = TRUE
    /\ buttons' = [buttons EXCEPT !.pause = NORMAL, !.resume = DISABLED]
    /\ UNCHANGED <<mon_vars, est_vars, gpu_vars, file_queue, unfinished_tasks, progress_queue, total_files,
                   copied_files, total_bytes_copied, cancel_event, thread_status,
                   threads, waiters, finalize_pending, ui_timer, main_pc,
                   percent_label, dst_files, runs, enqueued, started, faults>>

\* cancel_copy, lines 220-221: both events are set
CancelCopy ==
    /\ main_pc = "idle"
    /\ buttons.cancel = NORMAL
    /\ cancel_event' = TRUE
    /\ pause_event' = TRUE
    /\ main_pc' = "cancel_clear"
    /\ UNCHANGED <<mon_vars, est_vars, gpu_vars, file_queue, unfinished_tasks, progress_queue, total_files,
                   copied_files, total_bytes_copied, thread_status, threads,
                   waiters, finalize_pending, ui_timer, buttons, percent_label,
                   dst_files, runs, enqueued, started, faults>>

\* cancel_copy, lines 222-234: the deque is cleared (unfinished_tasks is
\* not touched), the labels and buttons are reset
CancelClear ==
    /\ main_pc = "cancel_clear"
    /\ file_queue' = <<>>
    /\ percent_label' = <<0, 0>>
    /\ buttons' = Buttons(NORMAL, DISABLED, DISABLED, DISABLED)
    /\ main_pc' = "idle"
    /\ UNCHANGED <<mon_vars, est_vars, gpu_vars, unfinished_tasks, progress_queue, total_files, copied_files,
                   total_bytes_copied, pause_event, cancel_event, thread_status,
                   threads, waiters, finalize_pending, ui_timer, dst_files, runs, enqueued, started,
                   faults>>

\* update_ui, lines 96-127: drain the progress queue into the label,
\* schedule the next tick while the run is not over
UpdateUi ==
    /\ main_pc = "idle"
    /\ ui_timer
    /\ percent_label' = IF progress_queue = <<>> THEN percent_label
                        ELSE <<progress_queue[Len(progress_queue)], total_files>>
    /\ progress_queue' = <<>>
    /\ ui_timer' = (copied_files < total_files /\ ~cancel_event)
    /\ UNCHANGED <<mon_vars, est_vars, gpu_vars, file_queue, unfinished_tasks, total_files, copied_files,
                   total_bytes_copied, pause_event, cancel_event, thread_status,
                   threads, waiters, finalize_pending, main_pc, buttons,
                   dst_files, runs, enqueued, started, faults>>

\* finalize_ui, lines 130-145
FinalizeUi ==
    /\ main_pc = "idle"
    /\ finalize_pending > 0
    /\ finalize_pending' = finalize_pending - 1
    /\ percent_label' = <<copied_files, total_files>>
    /\ buttons' = Buttons(NORMAL, DISABLED, DISABLED, DISABLED)
    /\ UNCHANGED <<mon_vars, est_vars, gpu_vars, file_queue, unfinished_tasks, progress_queue, total_files,
                   copied_files, total_bytes_copied, pause_event, cancel_event,
                   thread_status, threads, waiters, ui_timer, main_pc, dst_files,
                   runs, enqueued, started, faults>>

Next ==
    \/ StartCopyInvalid \/ StartCopy \/ PopulateFileQueue \/ SetTotalFiles
    \/ SpawnThreads \/ WaitForCompletion \/ PauseCopy \/ ResumeCopy
    \/ CancelCopy \/ CancelClear \/ UpdateUi \/ FinalizeUi
    \/ \E t \in DOMAIN threads : W_LoopCheck(t)
    \/ \E t \in DOMAIN threads : W_PauseWait(t)
    \/ \E t \in DOMAIN threads : W_GetNowait(t)
    \/ \E t \in DOMAIN threads : W_Open(t)
    \/ \E t \in DOMAIN threads : W_ChunkLoop(t)
    \/ \E t \in DOMAIN threads : W_Chunk(t)
    \/ \E t \in DOMAIN threads : W_Copystat(t)
    \/ \E t \in DOMAIN threads : W_BytesStore(t)
    \/ \E t \in DOMAIN threads : W_FinLoad(t)
    \/ \E t \in DOMAIN threads : W_FinStore(t)
    \/ \E t \in DOMAIN threads : W_FinPut(t)
    \/ \E t \in DOMAIN threads : W_FinEnqueue(t)
    \/ \E t \in DOMAIN threads : W_TaskDone(t)

Spec == Init /\ [][Next]_vars

\* =================================================== copy-GPU-macOS.py
\* The source file system of its runs: the directory src with the files
\* src/a and src/sub/b; the user selects the directory or the file src/a.
GpuSrcList == <<<<"src", "a">>, <<"src", "sub", "b">>>>
GpuSrcDirs == {<<"src">>, <<"src", "sub">>}
Selectable == {<<"src">>, <<"src", "a">>}

Range(q) == {q[i] : i \in DOMAIN q}
IsUnder(p, dir) == Len(p) > Len(dir) /\ SubSeq(p, 1, Len(dir)) = dir

\* os.path.isfile / os.path.exists on the source side
src_isfile(p) == p \in Range(GpuSrcList)
src_exists(p) == src_isfile(p) \/ p \in GpuSrcDirs

\* the path the operating system resolves: "." components drop out
normpath(p) == SelectSeq(p, LAMBDA c : c # ".")

\* os.path.exists / os.path.getsize on the destination side; a directory
\* never has the size of one of the source files
dst_exists(p) == normpath(p) \in DOMAIN dst_files \/ normpath(p) \in dst_dirs
dst_getsize(p) == IF normpath(p) \in DOMAIN dst_files THEN dst_files[normpath(p)] ELSE 0 - 1

\* os.walk(SOURCE_DIR): the files below a directory, in walk order
G_walk(dir) == SelectSeq(GpuSrcList, LAMBDA f : IsUnder(f, dir))

\* the test of populate_file_queue, lines 44 and 52
NeedsCopy(full_path, dest_path) ==
    ~dst_exists(dest_path) \/ getsize(full_path) # dst_getsize(dest_path)

\* the destination entry populate_file_queue tests for a source file:
\* lines 42-43 (single file) and lines 50-51 (walk)
dest_path(full_path, dest_dir) ==
    IF src_isfile(SOURCE_DIR)
    THEN join(dest_dir, <<basename(SOURCE_DIR)>>)
    ELSE join(dest_dir, relpath(full_path, SOURCE_DIR))

\* populate_file_queue(dest_dir), lines 41-53: the tasks it puts, in order
populate_file_queue(dest_dir) ==
    IF src_isfile(SOURCE_DIR)
    THEN IF NeedsCopy(SOURCE_DIR, dest_path(SOURCE_DIR, dest_dir))
         THEN <<SOURCE_DIR>>
         ELSE <<>>
    ELSE SelectSeq(G_walk(SOURCE_DIR),
                   LAMBDA full_path :
                       NeedsCopy(full_path, dest_path(full_path, dest_dir)))

\* the destination path copy_worker computes, lines 86-87
G_dest_file(src_file) == join(DEST_DIR_FULL, relpath(src_file, SOURCE_DIR))

\* os.makedirs(d, exist_ok=True): d and its ancestors below the root
Ancestors(d) == {SubSeq(d, 1, k) : k \in 1..Len(d)}

\* select_source, lines 271-282: the dialog returns a file or a folder.
\* The user picks paths between runs.
SelectSource ==
    /\ main_pc = "idle"
    /\ buttons.start = NORMAL
    /\ \E p \in Selectable : SOURCE_DIR' = p
    /\ UNCHANGED <<mon_vars, est_vars, file_queue, unfinished_tasks, progress_queue, total_files,
                   copied_files, total_bytes_copied, pause_event, cancel_event,
                   thread_status, threads, waiters, finalize_pending, ui_timer,
                   main_pc, buttons, percent_label, dst_files, runs, enqueued,
                   started, faults, DEST_DIR, DEST_DIR_FULL, dst_dirs, enumerated>>

\* select_dest: the handler line 315 binds to the destination button; the
\* file does not define it.  Modelled after select_source: the folder dialog
\* sets DEST_DIR.
SelectDest ==
    /\ main_pc = "idle"
    /\ buttons.start = NORMAL
    /\ DEST_DIR' = DEST
    /\ UNCHANGED <<mon_vars, est_vars, file_queue, unfinished_tasks, progress_queue, total_files,
                   copied_files, total_bytes_copied, pause_event, cancel_event,
                   thread_status, threads, waiters, finalize_pending, ui_timer,
                   main_pc, buttons, percent_label, dst_files, runs, enqueued,
                   started, faults, SOURCE_DIR, DEST_DIR_FULL, dst_dirs, enumerated>>

\* the test of start_copy, line 177
G_ValidPaths ==
    /\ SOURCE_DIR # <<>>
    /\ DEST_DIR # <<>>
    /\ src_exists(SOURCE_DIR)
    /\ DEST_DIR \in dst_dirs

\* start_copy, lines 173-179, a path is missing: copied_files is reset,
\* then the handler returns
G_StartCopyInvalid ==
    /\ main_pc = "idle"
    /\ buttons.start = NORMAL
    /\ ~G_ValidPaths
    /\ copied_files' = 0
    /\ UNCHANGED <<mon_vars, est_vars, gpu_vars, file_queue, unfinished_tasks, progress_queue,
                   total_files, total_bytes_copied, pause_event, cancel_event,
                   thread_status, threads, waiters, finalize_pending, ui_timer,
                   main_pc, buttons, percent_label, dst_files, runs, enqueued,
                   started, faults>>

\* start_copy, lines 173-191
G_StartCopy ==
    /\ main_pc = "idle"
    /\ buttons.start = NORMAL
    /\ G_ValidPaths
    /\ runs < MaxRuns
    /\ runs' = runs + 1
    /\ copied_files' = 0
    /\ DEST_DIR_FULL' = join(DEST_DIR, <<basename(SOURCE_DIR)>>)
    /\ dst_dirs' = dst_dirs \cup Ancestors(join(DEST_DIR, <<basename(SOURCE_DIR)>>))
    /\ buttons' = Buttons(DISABLED, NORMAL, DISABLED, NORMAL)
    /\ cancel_event' = FALSE
    /\ pause_event' = TRUE
    /\ main_pc' = "g_populate"
    /\ UNCHANGED <<mon_vars, est_vars, file_queue, unfinished_tasks, progress_queue, total_files,
                   total_bytes_copied, thread_status, threads, waiters,
                   finalize_pending, ui_timer, percent_label, dst_files,
                   enqueued, started, faults, SOURCE_DIR, DEST_DIR, enumerated>>

\* populate_file_queue(DEST_DIR_FULL), lines 39-53: the deque is cleared
\* (unfinished_tasks is not), then one put per file that needs a copy
G_Populate ==
    /\ main_pc = "g_populate"
    /\ LET tasks == populate_file_queue(DEST_DIR_FULL)
       IN  /\ enqueued + Len(tasks) <= MaxTasks
           /\ file_queue' = tasks
           /\ enumerated' = tasks
           /\ unfinished_tasks' = unfinished_tasks + Len(tasks)
           /\ enqueued' = enqueued + Len(tasks)
    /\ main_pc' = "g_qsize"
    /\ UNCHANGED <<mon_vars, est_vars, progress_queue, total_files, copied_files, total_bytes_copied,
                   pause_event, cancel_event, thread_status, threads, waiters,
                   finalize_pending, ui_timer, buttons, percent_label, dst_files,
                   runs, started, faults, SOURCE_DIR, DEST_DIR, DEST_DIR_FULL,
                   dst_dirs>>

\* populate_file_queue line 55 and start_copy lines 194-196: with no task
\* the handler returns and leaves the buttons as they are
G_SetTotalFiles ==
    /\ main_pc = "g_qsize"
    /\ total_files' = Len(file_queue)
    /\ main_pc' = IF Len(file_queue) = 0 THEN "idle" ELSE "spawn"
    /\ UNCHANGED <<mon_vars, est_vars, gpu_vars, file_queue, unfinished_tasks, progress_queue,
                   copied_files, total_bytes_copied, pause_event, cancel_event,
                   thread_status, threads, waiters, finalize_pending, ui_timer,
                   buttons, percent_label, dst_files, runs, enqueued, started,
                   faults>>

\* copy_worker, lines 86-131, for the task just dequeued: relpath, join and
\* os.makedirs are outside the try (an exception ends the thread); inside
\* it the file is read whole and written whole (the OpenCL kernel copies
\* the bytes unchanged), then copystat; open(dest_file, 'wb') raises when
\* dest_file is a directory
G_Copy(t) ==
    /\ threads[t].pc = "open"
    /\ LET src == threads[t].src_file
           dest_file == G_dest_file(src)
       IN  \/ /\ CanFault
              /\ faults' = faults + 1
              /\ threads' = Drop(threads, t)
              /\ UNCHANGED <<dst_files, dst_dirs, thread_status>>
           \/ /\ Raise(t)
              /\ dst_dirs' = dst_dirs \cup Ancestors(dirname(dest_file))
              /\ UNCHANGED dst_files
           \/ /\ normpath(dest_file) \in dst_dirs \cup Ancestors(dirname(dest_file))
              /\ thread_status' = SetStatus(t, Status("Error", basename(src)))
              /\ Goto(t, "fin_load")
              /\ dst_dirs' = dst_dirs \cup Ancestors(dirname(dest_file))
              /\ UNCHANGED <<dst_files, faults>>
           \/ /\ normpath(dest_file) \notin dst_dirs \cup Ancestors(dirname(dest_file))
              /\ dst_files' = Put(dst_files, normpath(dest_file), getsize(src))
              /\ dst_dirs' = dst_dirs \cup Ancestors(dirname(dest_file))
              /\ Goto(t, "fin_load")
              /\ UNCHANGED <<faults, thread_status>>
    /\ UNCHANGED <<mon_vars, est_vars, file_queue, unfinished_tasks, progress_queue, total_files,
                   copied_files, total_bytes_copied, pause_event, cancel_event,
                   waiters, finalize_pending, ui_timer, main_pc, buttons,
                   percent_label, runs, enqueued, started, SOURCE_DIR, DEST_DIR,
                   DEST_DIR_FULL, enumerated>>

\* what the destination holds when the program starts
InitialDest ==
    { << >>,
      (<<"dst", "src", "a">> :> 3) @@ (<<"dst", "src", "sub", "b">> :> 1) }

InitGPU ==
    /\ file_queue = <<>>
    /\ unfinished_tasks = 0
    /\ progress_queue = <<>>
    /\ total_files = 0
    /\ copied_files = 0
    /\ total_bytes_copied = 0
    /\ pause_event = FALSE
    /\ cancel_event = FALSE
    /\ thread_status = << >>
    /\ threads = << >>
    /\ waiters = 0
    /\ finalize_pending = 0
    /\ ui_timer = FALSE
    /\ main_pc = "idle"
    /\ buttons = Buttons(NORMAL, DISABLED, DISABLED, DISABLED)
    /\ percent_label = <<0, 0>>
    /\ dst_files \in InitialDest
    /\ runs = 0
    /\ enqueued = 0
    /\ started = 0
    /\ faults = 0
    /\ SOURCE_DIR = <<>>
    /\ DEST_DIR = <<>>
    /\ DEST_DIR_FULL = <<>>
    /\ dst_dirs = {DEST} \cup UNION {Ancestors(dirname(p)) : p \in DOMAIN dst_files}
    /\ enumerated = <<>>
    /\ mem_reported = 0
    /\ pool_size = <<>>
    /\ dest_reachable = TRUE
    /\ monitor_pc = "check"
    /\ outages = 0

NextGPU ==
    \/ SelectSource \/ SelectDest \/ G_StartCopyInvalid \/ G_StartCopy
    \/ G_Populate \/ G_SetTotalFiles \/ SpawnThreads \/ WaitForCompletion
    \/ PauseCopy \/ ResumeCopy \/ CancelCopy \/ CancelClear \/ UpdateUi
    \/ FinalizeUi
    \/ \E t \in DOMAIN threads : W_LoopCheck(t)
    \/ \E t \in DOMAIN threads : W_PauseWait(t)
    \/ \E t \in DOMAIN threads : W_GetNowait(t)
    \/ \E t \in DOMAIN threads : G_Copy(t)
    \/ \E t \in DOMAIN threads : W_FinLoad(t)
    \/ \E t \in DOMAIN threads : W_FinStore(t)
    \/ \E t \in DOMAIN threads : W_FinPut(t)
    \/ \E t \in DOMAIN threads : W_FinEnqueue(t)
    \/ \E t \in DOMAIN threads : W_TaskDone(t)

SpecGPU == InitGPU /\ [][NextGPU]_vars


\* ============================== monitor_destination of copy-GPU-macOS.py
\* The monitor thread, started with the program (line 358), polls the
\* destination every 3 seconds.  A run of these specifications begins with
\* the source and the destination selected.
MaxOutages == 1

\* the destination (a network share) goes away
DestLost ==
    /\ dest_reachable
    /\ outages < MaxOutages
    /\ dest_reachable' = FALSE
    /\ outages' = outages + 1
    /\ UNCHANGED <<est_vars, gpu_vars, monitor_pc, file_queue, unfinished_tasks,
                   progress_queue, total_files, copied_files, total_bytes_copied,
                   pause_event, cancel_event, thread_status, threads, waiters,
                   finalize_pending, ui_timer, main_pc, buttons, percent_label,
                   dst_files, runs, enqueued, started, faults>>

\* the destination comes back
DestBack ==
    /\ ~dest_reachable
    /\ dest_reachable' = TRUE
    /\ UNCHANGED <<est_vars, gpu_vars, monitor_pc, outages, file_queue,
                   unfinished_tasks, progress_queue, total_files, copied_files,
                   total_bytes_copied, pause_event, cancel_event, thread_status,
                   threads, waiters, finalize_pending, ui_timer, main_pc, buttons,
                   percent_label, dst_files, runs, enqueued, started, faults>>

\* what a monitor step leaves alone besides pause_event and monitor_pc
M_Frame ==
    UNCHANGED <<est_vars, gpu_vars, dest_reachable, outages, file_queue,
                unfinished_tasks, progress_queue, total_files, copied_files,
                total_bytes_copied, cancel_event, thread_status, threads, waiters,
                finalize_pending, ui_timer, main_pc, buttons, percent_label,
                dst_files, runs, enqueued, started, faults>>

\* lines 287-288 (and the sleep of line 296 when cancelled): the test of
\* cancel_event, then of DEST_DIR and os.path.exists(DEST_DIR)
M_Check ==
    /\ monitor_pc = "check"
    /\ monitor_pc' = IF cancel_event THEN "check"
                     ELSE IF DEST_DIR # <<>> /\ dest_reachable THEN "test_resume"
                     ELSE "test_pause"
    /\ UNCHANGED pause_event
    /\ M_Frame

\* line 289: not pause_event.is_set() and start_button is not NORMAL
M_TestResume ==
    /\ monitor_pc = "test_resume"
    /\ monitor_pc' = IF ~pause_event /\ buttons.start # NORMAL THEN "set" ELSE "check"
    /\ UNCHANGED pause_event
    /\ M_Frame

\* line 290: pause_event.set()
M_Set ==
    /\ monitor_pc = "set"
    /\ pause_event' = TRUE
    /\ monitor_pc' = "check"
    /\ M_Frame

\* line 293: pause_event.is_set()
M_TestPause ==
    /\ monitor_pc = "test_pause"
    /\ monitor_pc' = IF pause_event THEN "clear" ELSE "check"
    /\ UNCHANGED pause_event
    /\ M_Frame

\* line 294: pause_event.clear()
M_Clear ==
    /\ monitor_pc = "clear"
    /\ pause_event' = FALSE
    /\ monitor_pc' = "check"
    /\ M_Frame

monitor_destination == M_Check \/ M_TestResume \/ M_Set \/ M_TestPause \/ M_Clear

\* the program with the folder src and the destination selected, the
\* destination empty
InitMonitor ==
    /\ file_queue = <<>>
    /\ unfinished_tasks = 0
    /\ progress_queue = <<>>
    /\ total_files = 0
    /\ copied_files = 0
    /\ total_bytes_copied = 0
    /\ pause_event = FALSE
    /\ cancel_event = FALSE
    /\ thread_status = << >>
    /\ threads = << >>
    /\ waiters = 0
    /\ finalize_pending = 0
    /\ ui_timer = FALSE
    /\ main_pc = "idle"
    /\ buttons = Buttons(NORMAL, DISABLED, DISABLED, DISABLED)
    /\ percent_label = <<0, 0>>
    /\ dst_files = << >>
    /\ runs = 0
    /\ enqueued = 0
    /\ started = 0
    /\ faults = 0
    /\ SOURCE_DIR = SOURCE
    /\ DEST_DIR = DEST
    /\ DEST_DIR_FULL = <<>>
    /\ dst_dirs = {DEST}
    /\ enumerated = <<>>
    /\ mem_reported = 0
    /\ pool_size = <<>>
    /\ dest_reachable = TRUE
    /\ monitor_pc = "check"
    /\ outages = 0

NextMonitor ==
    \/ G_StartCopy \/ G_Populate \/ G_SetTotalFiles \/ SpawnThreads
    \/ WaitForCompletion \/ PauseCopy \/ ResumeCopy \/ CancelCopy \/ CancelClear
    \/ UpdateUi \/ FinalizeUi
    \/ DestLost \/ DestBack
    \/ M_Check \/ M_TestResume \/ M_Set \/ M_TestPause \/ M_Clear
    \/ \E t \in DOMAIN threads : W_LoopCheck(t)
    \/ \E t \in DOMAIN threads : W_PauseWait(t)
    \/ \E t \in DOMAIN threads : W_GetNowait(t)
    \/ \E t \in DOMAIN threads : G_Copy(t)
    \/ \E t \in DOMAIN threads : W_FinLoad(t)
    \/ \E t \in DOMAIN threads : W_FinStore(t)
    \/ \E t \in DOMAIN threads : W_FinPut(t)
    \/ \E t \in DOMAIN threads : W_FinEnqueue(t)
    \/ \E t \in DOMAIN threads : W_TaskDone(t)

\* every thread that can take a step eventually takes one; the user is
\* never obliged to press a button, the destination never obliged to change
FairMonitor ==
    /\ WF_vars(monitor_destination)
    /\ WF_vars(CancelClear)
    /\ WF_vars(\E t \in DOMAIN threads :
                  \/ W_LoopCheck(t) \/ W_PauseWait(t) \/ W_GetNowait(t) \/ G_Copy(t)
                  \/ W_FinLoad(t) \/ W_FinStore(t) \/ W_FinPut(t) \/ W_FinEnqueue(t)
                  \/ W_TaskDone(t))

SpecMonitor == InitMonitor /\ [][NextMonitor]_vars /\ FairMonitor

\* ============================================= estimate_thread_count alone
\* The memory psutil reports, in MiB: below zero, zero, and around every
\* multiple of half the assumed file size up to beyond the cap of 8.  The
\* quotient of the byte counts is the quotient of the MiB counts, floor
\* division by 2^20 and then by 500 being floor division by 500 * 2^20.
MaxMemSteps == 20
MemValues ==
    {k * (ESTIMATED_AVG_FILE_SIZE \div 2) + d : k \in (0 - 4)..MaxMemSteps, d \in {0 - 1, 0, 1}}

InitEstimate ==
    /\ file_queue = <<>>
    /\ unfinished_tasks = 0
    /\ progress_queue = <<>>
    /\ total_files = 0
    /\ copied_files = 0
    /\ total_bytes_copied = 0
    /\ pause_event = FALSE
    /\ cancel_event = FALSE
    /\ thread_status = << >>
    /\ threads = << >>
    /\ waiters = 0
    /\ finalize_pending = 0
    /\ ui_timer = FALSE
    /\ main_pc = "idle"
    /\ buttons = Buttons(NORMAL, DISABLED, DISABLED, DISABLED)
    /\ percent_label = <<0, 0>>
    /\ dst_files = << >>
    /\ runs = 0
    /\ enqueued = 0
    /\ started = 0
    /\ faults = 0
    /\ SOURCE_DIR = <<>>
    /\ DEST_DIR = <<>>
    /\ DEST_DIR_FULL = <<>>
    /\ dst_dirs = {DEST}
    /\ enumerated = <<>>
    /\ mem_reported \in MemValues
    /\ pool_size = <<>>
    /\ dest_reachable = TRUE
    /\ monitor_pc = "check"
    /\ outages = 0

\* start_copy line 189: num_threads = estimate_thread_count()
EstimateThreadCount ==
    /\ pool_size = <<>>
    /\ pool_size' = <<estimate_thread_count(mem_reported)>>
    /\ UNCHANGED <<mon_vars, gpu_vars, mem_reported, file_queue, unfinished_tasks,
                   progress_queue, total_files, copied_files, total_bytes_copied,
                   pause_event, cancel_event, thread_status, threads, waiters,
                   finalize_pending, ui_timer, main_pc, buttons, percent_label,
                   dst_files, runs, enqueued, started, faults>>

NextEstimate == EstimateThreadCount

SpecEstimate == InitEstimate /\ [][NextEstimate]_vars

\* ============================================================== claims
\* every live worker is blocked at a suspension point (the gate wait before
\* a dequeue or before a chunk) and the gate is Paused
Suspended(t) == threads[t].pc \in {"wait", "chunk_wait"}
Quiesced == ~pause_event /\ \A t \in DOMAIN threads : Suspended(t)

\* the first run is over: it was never cancelled, every worker it started
\* has left copy_worker, and no handler has run since (finalize_ui and
\* cancel_copy are the ones that enable the start button again)
FirstRunOver ==
    /\ runs = 1
    /\ started > 0
    /\ threads = << >>
    /\ ~cancel_event
    /\ buttons.start = DISABLED

\* C1: an uncancelled run of N tasks ends with copied_files = total_files = N,
\* failed tasks included.  Stated on the state in which the run's workers
\* have all returned: nothing can raise copied_files after it.
C1_AllCompleted == FirstRunOver => copied_files = total_files

\* C2: after cancel() the drain wait returns, even with tasks left on the
\* queue.  Stated on the state in which cancel_copy has returned and every
\* worker has left: the waiter has returned, or join() can return.
C2_DrainReturns ==
    (cancel_event /\ main_pc = "idle" /\ faults = 0 /\ threads = << >>)
        => (waiters = 0 \/ unfinished_tasks = 0)

\* C3: a task taken from the queue after cancel_event was set is never
\* processed: its worker never gets past the dequeue (no destination file
\* opened, no count in copied_files).
C3_NoLateProcessing ==
    \A t \in DOMAIN threads : threads[t].late => threads[t].pc = "open"

C5_ErrorObservable ==
    (FirstRunOver /\ faults = 1 /\ unfinished_tasks = 0)
        => /\ copied_files = total_files
           /\ Cardinality({k \in DOMAIN thread_status :
                               thread_status[k].kind = "Error"}) = 1

\* C6: enumeration puts exactly the source files whose destination entry
\* (destination root + relative path) does not exist or has another size,
\* each once, and total_files then is the number of tasks it put.
C6_EnumerationExact ==
    [][ /\ G_Populate =>
             LET SourceFiles == IF SOURCE_DIR \in Range(GpuSrcList)
                                THEN {SOURCE_DIR}
                                ELSE {f \in Range(GpuSrcList) : IsUnder(f, SOURCE_DIR)}
                 Rel(f) == IF f = SOURCE_DIR
                           THEN <<f[Len(f)]>>
                           ELSE SubSeq(f, Len(SOURCE_DIR) + 1, Len(f))
                 Entry(f) == DEST_DIR_FULL \o Rel(f)
                 Skipped(f) == IF Entry(f) \in DOMAIN dst_files
                               THEN dst_files[Entry(f)] = getsize(f)
                               ELSE FALSE
             IN  /\ Range(enumerated') = {f \in SourceFiles : ~Skipped(f)}
                 /\ Len(enumerated') = Cardinality(Range(enumerated'))
        /\ G_SetTotalFiles => total_files' = Len(enumerated) ]_vars

\* the enumeration half of C6 alone
C6_FilterExact ==
    [][ G_Populate =>
             LET SourceFiles == IF SOURCE_DIR \in Range(GpuSrcList)
                                THEN {SOURCE_DIR}
                                ELSE {f \in Range(GpuSrcList) : IsUnder(f, SOURCE_DIR)}
                 Rel(f) == IF f = SOURCE_DIR
                           THEN <<f[Len(f)]>>
                           ELSE SubSeq(f, Len(SOURCE_DIR) + 1, Len(f))
                 Entry(f) == DEST_DIR_FULL \o Rel(f)
                 Skipped(f) == IF Entry(f) \in DOMAIN dst_files
                               THEN dst_files[Entry(f)] = getsize(f)
                               ELSE FALSE
             IN  /\ Range(enumerated') = {f \in SourceFiles : ~Skipped(f)}
                 /\ Len(enumerated') = Cardinality(Range(enumerated')) ]_vars

\* a first run, not cancelled, whose workers have all returned with every
\* task accounted for and no injected I/O failure
G_FirstRunClean ==
    /\ runs = 1 /\ started > 0 /\ threads = << >> /\ ~cancel_event
    /\ buttons.start = DISABLED /\ faults = 0 /\ unfinished_tasks = 0

\* C7: after a run that completed without cancellation and without an I/O
\* failure, enumerating again with the same source and destination yields
\* no task, and the path a worker opens for a task of the running copy is
\* the destination entry the enumerator tested for it.
C7_RerunEnumeratesNothing ==
    /\ G_FirstRunClean => populate_file_queue(DEST_DIR_FULL) = <<>>
    /\ (runs = 1 /\ ~cancel_event /\ buttons.start = DISABLED) =>
          \A t \in DOMAIN threads :
              threads[t].pc = "open" =>
                  normpath(G_dest_file(threads[t].src_file))
                      = dest_path(threads[t].src_file, DEST_DIR_FULL)

\* C7 for directory sources alone
C7_DirectoryRerun ==
    (G_FirstRunClean /\ SOURCE_DIR = <<"src">>) =>
        populate_file_queue(DEST_DIR_FULL) = <<>>

\* C8: estimate_thread_count returns a value in [1, 8] for every reported
\* memory value, zero and negative ones included, and the value is the
\* quotient available memory div ESTIMATED_AVG_FILE_SIZE clamped to [1, 8].
C8_ThreadCountClamped ==
    pool_size # <<>> =>
        LET q == mem_reported \div ESTIMATED_AVG_FILE_SIZE
            n == pool_size[1]
        IN  /\ n \in 1..8
            /\ n = IF q < 1 THEN 1 ELSE IF q > 8 THEN 8 ELSE q

\* the call has run on a negative, on a zero, on an in-range and on an
\* over-the-cap memory value (one witness per case is reachable)
C8_Witness ==
    /\ pool_size # <<>>
    /\ mem_reported < 0
    /\ pool_size[1] = 1

C8_WitnessCapped ==
    /\ pool_size # <<>>
    /\ mem_reported > 8 * ESTIMATED_AVG_FILE_SIZE
    /\ pool_size[1] = 8

C8_WitnessInRange ==
    /\ pool_size = <<3>>
    /\ mem_reported = 3 * ESTIMATED_AVG_FILE_SIZE + 1

\* C9: start() with a path that does not exist enqueues nothing, starts no
\* worker and no drain waiter, and leaves the gate and the run counters as
\* they were.
C9_FailFast ==
    [][StartCopyInvalid =>
          UNCHANGED <<file_queue, unfinished_tasks, threads, waiters,
                      pause_event, cancel_event, total_files, copied_files,
                      total_bytes_copied>>]_vars

\* C10: copied_files <= total_files in every reachable state.
C10_CopiedAtMostTotal == copied_files <= total_files

\* C11: once cancel_event is set, no operation clears it.
C11_CancelOneWay == [][cancel_event => cancel_event']_vars

\* C12: a task is dequeued by at most one worker (a dequeue hands one
\* entry to one worker and takes that entry off the queue), and nothing but
\* the enumeration ever puts an entry on the queue.
C12_DequeuedOnce ==
    [][ LET Takers == {t \in DOMAIN threads \cap DOMAIN threads' :
                          threads[t].pc = "get" /\ threads'[t].pc = "open"}
        IN  /\ Takers # {} => /\ Cardinality(Takers) = 1
                              /\ Len(file_queue') = Len(file_queue) - 1
            /\ Len(file_queue') > Len(file_queue) => main_pc = "populate" ]_vars

\* two workers hold the two tasks of one enumeration
C12_Witness ==
    \E t, u \in DOMAIN threads :
        /\ threads[t].src_file = <<"src", "a">>
        /\ threads[u].src_file = <<"src", "b">>
        /\ file_queue = <<>>

\* C13: within a run copied_files and total_bytes_copied never decrease,
\* and every increment takes effect: the store of a worker adds 1 (its
\* copied_size) to the value the counter has at that moment.
C13_AtomicIncrements ==
    [][ /\ (~StartCopy /\ ~StartCopyInvalid)
             => /\ copied_files' >= copied_files
                /\ total_bytes_copied' >= total_bytes_copied
        /\ \A t \in DOMAIN threads \cap DOMAIN threads' :
             /\ (threads[t].pc = "fin_store" /\ threads'[t].pc = "fin_put")
                   => copied_files' = copied_files + 1
             /\ (threads[t].pc = "bytes_store" /\ threads'[t].pc = "fin_load")
                   => total_bytes_copied' = total_bytes_copied + threads[t].copied_size
      ]_vars

\* C15: a worker that has dequeued a task does not end before it has
\* marked the task done, whatever step fails, and the drain counter is
\* zero once every worker of an uncancelled run has returned.
C15_TaskDoneAlways ==
    [][ /\ \A t \in DOMAIN threads :
               threads[t].src_file # NoTask => t \in DOMAIN threads'
        /\ (runs' = 1 /\ threads' = << >> /\ started' > 0 /\ ~cancel_event'
              /\ main_pc' = "idle" /\ file_queue' = <<>>)
               => unfinished_tasks' = 0 ]_vars

\* C17: a dequeue takes the oldest entry and leaves the others in their
\* order, and the enumeration appends behind the entries already queued.
C17_FifoDequeue ==
    [][ /\ \A t \in DOMAIN threads \cap DOMAIN threads' :
               (threads[t].pc = "get" /\ threads'[t].pc = "open")
                   => /\ threads'[t].src_file = Head(file_queue)
                      /\ file_queue' = Tail(file_queue)
        /\ Len(file_queue') > Len(file_queue)
               => SubSeq(file_queue', 1, Len(file_queue)) = file_queue ]_vars

\* the first of two enumerated tasks is out, the second still queued
C17_Witness ==
    /\ file_queue = <<<<"src", "b">>>>
    /\ \E t \in DOMAIN threads : threads[t].src_file = <<"src", "a">>

\* C18: total_files changes only in the step that follows the enumeration,
\* with no worker running, and an enumeration of zero tasks starts no
\* worker and no drain waiter.
C18_TotalSetOnce ==
    [][ /\ total_files' # total_files => (main_pc = "qsize" /\ threads = << >>)
        /\ (main_pc = "qsize" /\ file_queue = <<>>)
               => (threads' = threads /\ waiters' = waiters /\ main_pc' = "idle")
      ]_vars

\* C20: a task abandoned in the chunk loop on cancellation is not counted:
\* no worker is past the increment of copied_files with an abandoned task.
C20_AbandonedNotCounted ==
    \A t \in DOMAIN threads :
        threads[t].abandoned =>
            threads[t].pc \notin {"fin_put", "fin_enqueue", "task_done"}

\* C14: once cancel has been called, a worker blocked at the gate wait is
\* released: while cancel_event stays set no worker remains in
\* pause_event.wait() forever, whatever pause, resume and the monitor do.
C14_NoDeadlockAfterCancel ==
    (cancel_event /\ \E t \in DOMAIN threads : threads[t].pc = "wait")
        ~> (~cancel_event \/ \A t \in DOMAIN threads : threads[t].pc # "wait")

\* C16: the monitor never changes cancel_event and never changes the gate
\* once cancel_event is set; it clears pause_event only after it found the
\* destination unreachable and sets it only after it found it reachable.
C16_MonitorRespectsCancel ==
    [][ (M_Set \/ M_Clear) => (~cancel_event /\ cancel_event' = cancel_event) ]_vars

\* C19: while the destination has been reachable throughout, a pause the
\* caller requested through pause() is ended only by resume() or cancel().
C19_UserPauseKept ==
    [][ (outages' = 0 /\ buttons.resume = NORMAL /\ ~pause_event /\ pause_event')
            => (ResumeCopy \/ CancelCopy) ]_vars

\* C21: the completed counts the workers of a run push to progress_queue
\* are in non-decreasing order, so the last value a tick of update_ui reads
\* is the largest count published so far.
C21_ProgressNonDecreasing ==
    (runs = 1 /\ faults = 0 /\ ~cancel_event /\ buttons.start = DISABLED)
        => \A i, j \in DOMAIN progress_queue :
               i < j => progress_queue[i] <= progress_queue[j]

\* C22: a worker started by an earlier run takes no part in a later one: it
\* dequeues no task and increments no counter once a later start_copy has
\* been accepted.
C22_NoStaleWorkers ==
    [][ \A t \in DOMAIN threads \cap DOMAIN threads' :
            t[1] < runs =>
                /\ ~(threads[t].pc = "get" /\ threads'[t].pc = "open")
                /\ ~(threads[t].pc = "fin_store" /\ threads'[t].pc = "fin_put")
                /\ ~(threads[t].pc = "bytes_store" /\ threads'[t].pc = "fin_load")
      ]_vars

====
